---- MODULE Spec2Model ----
(***************************************************************************)
(* Model of plesk/utils/mail-aliases.py: the Plesk XML-RPC client           *)
(* (PleskApiClient), the alias manager (PleskMailAliasManager) and the      *)
(* command line driver main().                                              *)
(*                                                                          *)
(* Strings are sequences of one-character strings, so that str.split, int() *)
(* and str() are computed rather than assumed.  An XML document is the      *)
(* sequence of its elements in document order, each with its tag, the index *)
(* of its parent (0 for the root) and its text.                             *)
(***************************************************************************)
EXTENDS Integers, Sequences, FiniteSets, TLC

VARIABLES
    pc,        \* position of the caller: main()'s line, or the API user's step
    args,      \* argparse namespace: list, add, remove, account
    env,       \* os.getenv(args.passwd_env_var)
    client,    \* the PleskApiClient object (fields of __init__)
    mgr,       \* the PleskMailAliasManager object (_site, _site_id)
    conns,     \* HTTPSConnection objects created so far
    sent,      \* requests handed to conn.request, in order
    received,  \* response bodies returned by PleskApiClient.request, in order
    ret,       \* value returned by the last manager call (alias list)
    ok,        \* value returned by the last direct _verify_status_ok call
    exc,       \* the exception that ended the last call / the run
    exitcode,  \* process exit status, -1 while running
    stdout,    \* lines printed
    call       \* arguments of the last direct call: <<site>> of the manager's
               \* constructor, <<doc, el, path>> of _verify_status_ok

vars == <<pc, args, env, client, mgr, conns, sent, received, ret, ok, exc, exitcode, stdout, call>>

----------------------------------------------------------------------------
(* Bounds of the model *)

MaxResults == 2      \* result nodes per response

----------------------------------------------------------------------------
(* Python values *)

\* Python's None where a string is expected (element without text, unset
\* environment variable, option not given, _site_id before resolution)
None == <<"None">>

Truthy(s) == s # None /\ s # <<>>

Digits == <<"0", "1", "2", "3", "4", "5", "6", "7", "8", "9">>

IsDigit(c) == \E d \in 1..10 : Digits[d] = c

DigitVal(c) == (CHOOSE d \in 1..10 : Digits[d] = c) - 1

RECURSIVE DecVal(_)
DecVal(s) == IF s = <<>> THEN 0
             ELSE 10 * DecVal(SubSeq(s, 1, Len(s) - 1)) + DigitVal(s[Len(s)])

\* why int(text) raises, "" when it does not
int_error(s) ==
    IF s = None THEN "TypeError"
    ELSE IF s = <<>> \/ \E i \in 1..Len(s) : ~IsDigit(s[i]) THEN "ValueError"
    ELSE ""

int(s) == DecVal(s)

RECURSIVE str(_)
str(n) == IF n < 10 THEN <<Digits[n + 1]>>
          ELSE str(n \div 10) \o <<Digits[(n % 10) + 1]>>

\* s.split(sep) for a one-character separator
RECURSIVE split(_, _)
split(s, sep) ==
    IF \A i \in 1..Len(s) : s[i] # sep THEN <<s>>
    ELSE LET k == CHOOSE i \in 1..Len(s) :
                      s[i] = sep /\ \A j \in 1..(i - 1) : s[j] # sep
         IN  <<SubSeq(s, 1, k - 1)>> \o split(SubSeq(s, k + 1, Len(s)), sep)

----------------------------------------------------------------------------
(* Exceptions *)

NoException == [cls |-> "", msg |-> "", body |-> <<>>]

\* body: <<>> or <<resp>>, the response body interpolated into the message
Raise(cls, msg, body) == [cls |-> cls, msg |-> msg, body |-> body]

MsgNotOkay == "XML RPC response was not okay"
MsgSiteName == "XML RPC response does not match specified site name"
MsgFindOne == "_xml_find_one() assumes that findall() returns exactly one result"
MsgCertificate == "Certificate exception verification can only be skipped by removing this exception"
MsgEnviron == "Failed to read value of environment variable"
MsgFlags == "Either -L, -A or -R are requried"
MsgListError == "'list' object has no attribute 'error'"

----------------------------------------------------------------------------
(* XML documents and lxml's findall *)

Node(tag, parent, text) == [tag |-> tag, parent |-> parent, text |-> text]

Indices(doc) == [i \in 1..Len(doc) |-> i]

\* children of element el with the given tag, in document order
Children(doc, el, tag) ==
    SelectSeq(Indices(doc), LAMBDA i : doc[i].parent = el /\ doc[i].tag = tag)

RECURSIVE FindStep(_, _, _)
FindStep(doc, els, tag) ==
    IF els = <<>> THEN <<>>
    ELSE Children(doc, Head(els), tag) \o FindStep(doc, Tail(els), tag)

\* el.findall("./t1/t2/...") with path = <<t1, t2, ...>>; "." is <<>>
RECURSIVE FindPath(_, _, _)
FindPath(doc, els, path) ==
    IF path = <<>> THEN els
    ELSE FindPath(doc, FindStep(doc, els, Head(path)), Tail(path))

findall(doc, el, path) == FindPath(doc, <<el>>, path)

\* the root element returned by lxml.etree.XML
Root == 1

----------------------------------------------------------------------------
(* class PleskApiClient *)

Host == <<"h">>

\* PleskApiClient.__init__(host, port=8443, ssl_unverified)
PleskApiClient(host, ssl_unverified) ==
    [host |-> host, port |-> 8443, secret_key |-> None,
     ssl_unverified |-> ssl_unverified, login |-> None, passwd |-> None]

set_credentials(c, login, passwd) == [c EXCEPT !.login = login, !.passwd = passwd]

set_secret_key(c, secret_key) == [c EXCEPT !.secret_key = secret_key]

request_headers(c) ==
    IF Truthy(c.secret_key)
    THEN [KEY |-> c.secret_key, HTTP_AUTH_LOGIN |-> None, HTTP_AUTH_PASSWD |-> None]
    ELSE [KEY |-> None, HTTP_AUTH_LOGIN |-> c.login, HTTP_AUTH_PASSWD |-> c.passwd]

\* http.client.HTTPSConnection(host, port[, context]); constructing it opens nothing
HTTPSConnection(c, verified) == [host |-> c.host, port |-> c.port, verified |-> verified]

\* What the network does with one POST: net = FALSE is a transport failure
\* (conn.request or conn.getresponse raises); otherwise the body read is
\* well-formed XML holding doc, or not XML at all.
Outcome(net, wellformed, doc) == [net |-> net, wellformed |-> wellformed, doc |-> doc]

Body(o) == [wellformed |-> o.wellformed, doc |-> o.doc]

\* request with the raise of lines 52-53 removed
request_unverified(c, req, o) ==
    [exc   |-> IF o.net THEN NoException ELSE Raise("OSError", "", <<>>),
     body  |-> IF o.net THEN <<Body(o)>> ELSE <<>>,
     conns |-> <<HTTPSConnection(c, ~c.ssl_unverified)>>,
     sent  |-> <<[headers |-> request_headers(c), body |-> req]>>]

\* PleskApiClient.request(request): the exception raised, the body returned,
\* the connection objects created and the requests handed to conn.request
request(c, req, o) ==
    IF c.ssl_unverified = TRUE
    THEN [exc   |-> Raise("Exception", MsgCertificate, <<>>),
          body  |-> <<>>,
          conns |-> <<HTTPSConnection(c, FALSE)>>,
          sent  |-> <<>>]
    ELSE [exc   |-> IF o.net THEN NoException ELSE Raise("OSError", "", <<>>),
          body  |-> IF o.net THEN <<Body(o)>> ELSE <<>>,
          conns |-> <<HTTPSConnection(c, TRUE)>>,
          sent  |-> <<[headers |-> request_headers(c), body |-> req]>>]

----------------------------------------------------------------------------
(* class PleskMailAliasManager *)

\* the request bodies, by the values interpolated into the XML templates
SiteGetPacket(site) ==
    [op |-> "site/get", site |-> site, site_id |-> None, account |-> None, alias |-> None]

MailUpdatePacket(op, site_id, account, alias) ==
    [op |-> op, site |-> None, site_id |-> str(site_id), account |-> account, alias |-> alias]

MailGetInfoPacket(site_id, account) ==
    [op |-> "mail/get_info", site |-> None, site_id |-> str(site_id),
     account |-> account, alias |-> None]

\* _xml_find_one(el, path): [exc, el]
_xml_find_one(doc, el, path) ==
    LET found == findall(doc, el, path)
    IN  IF 1 # Len(found)
        THEN [exc |-> Raise("Exception", MsgFindOne, <<>>), el |-> 0]
        ELSE [exc |-> NoException, el |-> found[1]]

\* _verify_status_ok reading the first status found instead of the only one
_verify_status_ok_first(doc, el, path) ==
    LET found == findall(doc, el, Append(path, "status"))
    IN  [exc |-> NoException,
         val |-> found # <<>> /\ <<"o", "k">> = doc[found[1]].text]

\* _verify_status_ok(path, response): [exc, val]; the try/except turns the
\* exception of _xml_find_one into False
_verify_status_ok(doc, el, path) ==
    LET result == _xml_find_one(doc, el, Append(path, "status"))
    IN  IF result.exc # NoException
        THEN [exc |-> NoException, val |-> FALSE]
        ELSE [exc |-> NoException, val |-> (<<"o", "k">> = doc[result.el].text)]

\* lxml.etree.XML(resp)
XMLSyntaxError == Raise("XMLSyntaxError", "", <<>>)

\* site_id = None on line 109; a resolved identifier n is <<n>>
NoSiteId == <<>>

\* the loop body without the comparison of line 115
SiteResult_anyname(site, resp, result) ==
    LET doc  == resp.doc
        name == _xml_find_one(doc, result, <<"data", "gen_info", "name">>)
        id   == _xml_find_one(doc, result, <<"id">>)
    IN  IF ~_verify_status_ok(doc, result, <<>>).val
        THEN [exc |-> Raise("Exception", MsgNotOkay, <<resp>>), site_id |-> NoSiteId]
        ELSE IF name.exc # NoException
        THEN [exc |-> name.exc, site_id |-> NoSiteId]
        ELSE IF id.exc # NoException
        THEN [exc |-> id.exc, site_id |-> NoSiteId]
        ELSE IF int_error(doc[id.el].text) # ""
        THEN [exc |-> Raise(int_error(doc[id.el].text), "", <<>>), site_id |-> NoSiteId]
        ELSE [exc |-> NoException, site_id |-> <<int(doc[id.el].text)>>]

\* the loop body raising the error of line 113 for a name mismatch too
SiteResult_notokay(site, resp, result) ==
    LET doc  == resp.doc
        name == _xml_find_one(doc, result, <<"data", "gen_info", "name">>)
        id   == _xml_find_one(doc, result, <<"id">>)
    IN  IF ~_verify_status_ok(doc, result, <<>>).val
        THEN [exc |-> Raise("Exception", MsgNotOkay, <<resp>>), site_id |-> NoSiteId]
        ELSE IF name.exc # NoException
        THEN [exc |-> name.exc, site_id |-> NoSiteId]
        ELSE IF site # doc[name.el].text
        THEN [exc |-> Raise("Exception", MsgNotOkay, <<resp>>), site_id |-> NoSiteId]
        ELSE IF id.exc # NoException
        THEN [exc |-> id.exc, site_id |-> NoSiteId]
        ELSE IF int_error(doc[id.el].text) # ""
        THEN [exc |-> Raise(int_error(doc[id.el].text), "", <<>>), site_id |-> NoSiteId]
        ELSE [exc |-> NoException, site_id |-> <<int(doc[id.el].text)>>]

\* one iteration of the for loop of _get_site_id: [exc, site_id]
SiteResult(site, resp, result) ==
    LET doc  == resp.doc
        name == _xml_find_one(doc, result, <<"data", "gen_info", "name">>)
        id   == _xml_find_one(doc, result, <<"id">>)
    IN  IF ~_verify_status_ok(doc, result, <<>>).val
        THEN [exc |-> Raise("Exception", MsgNotOkay, <<resp>>), site_id |-> NoSiteId]
        ELSE IF name.exc # NoException
        THEN [exc |-> name.exc, site_id |-> NoSiteId]
        ELSE IF site # doc[name.el].text
        THEN [exc |-> Raise("Exception", MsgSiteName, <<>>), site_id |-> NoSiteId]
        ELSE IF id.exc # NoException
        THEN [exc |-> id.exc, site_id |-> NoSiteId]
        ELSE IF int_error(doc[id.el].text) # ""
        THEN [exc |-> Raise(int_error(doc[id.el].text), "", <<>>), site_id |-> NoSiteId]
        ELSE [exc |-> NoException, site_id |-> <<int(doc[id.el].text)>>]

\* the loop keeping the first validated id instead of the last
RECURSIVE SiteLoop_first(_, _, _, _)
SiteLoop_first(site, resp, results, site_id) ==
    IF results = <<>> THEN [exc |-> NoException, site_id |-> site_id]
    ELSE LET r == SiteResult(site, resp, Head(results))
         IN  IF r.exc # NoException THEN r
             ELSE SiteLoop_first(site, resp, Tail(results),
                                 IF site_id = NoSiteId THEN r.site_id ELSE site_id)

\* the for loop of _get_site_id over the result nodes
RECURSIVE SiteLoop(_, _, _, _)
SiteLoop(site, resp, results, site_id) ==
    IF results = <<>> THEN [exc |-> NoException, site_id |-> site_id]
    ELSE LET r == SiteResult(site, resp, Head(results))
         IN  IF r.exc # NoException THEN r
             ELSE SiteLoop(site, resp, Tail(results), r.site_id)

\* _get_site_id() after the response is read: [exc, site_id]
ParseSiteId(site, resp) ==
    IF ~resp.wellformed THEN [exc |-> XMLSyntaxError, site_id |-> NoSiteId]
    ELSE LET r == SiteLoop(site, resp,
                           findall(resp.doc, Root, <<"site", "get", "result">>), NoSiteId)
         IN  IF r.exc # NoException THEN r
             ELSE IF r.site_id = NoSiteId
             THEN [exc |-> Raise("Exception", MsgNotOkay, <<resp>>), site_id |-> NoSiteId]
             ELSE r

\* _get_site_id(): [exc, site_id, conns, sent, received]
_get_site_id(c, site, o) ==
    LET io == request(c, SiteGetPacket(site), o)
        r  == IF io.exc # NoException
              THEN [exc |-> io.exc, site_id |-> NoSiteId]
              ELSE ParseSiteId(site, io.body[1])
    IN  [exc |-> r.exc, site_id |-> r.site_id,
         conns |-> io.conns, sent |-> io.sent, received |-> io.body]

\* PleskMailAliasManager.__init__(client, site): the manager object, had
\* _get_site_id returned
PleskMailAliasManager(site, site_id) == [site |-> site, site_id |-> site_id]

\* the part shared by add_mail_alias, del_mail_alias and query_aliases after
\* the response is read: parse it and verify the status at path
ParseVerified(resp, path) ==
    IF ~resp.wellformed THEN XMLSyntaxError
    ELSE IF ~_verify_status_ok(resp.doc, Root, path).val
    THEN Raise("Exception", MsgNotOkay, <<resp>>)
    ELSE NoException

\* add_mail_alias / del_mail_alias with op "mail/update/add", "mail/update/remove"
UpdatePath(op) == IF op = "mail/update/add"
                  THEN <<"mail", "update", "add", "result">>
                  ELSE <<"mail", "update", "remove", "result">>

mail_update(c, m, op, account, alias, o) ==
    LET io == request(c, MailUpdatePacket(op, m.site_id[1], account, alias), o)
    IN  [exc |-> IF io.exc # NoException THEN io.exc
                 ELSE ParseVerified(io.body[1], UpdatePath(op)),
         val |-> <<>>,
         conns |-> io.conns, sent |-> io.sent, received |-> io.body]

add_mail_alias(c, m, account, alias, o) ==
    mail_update(c, m, "mail/update/add", account, alias, o)

del_mail_alias(c, m, account, alias, o) ==
    mail_update(c, m, "mail/update/remove", account, alias, o)

\* the loops returning after the first mailname
CollectAliases_first(doc, mailnames) ==
    IF mailnames = <<>> THEN <<>>
    ELSE LET found == findall(doc, Head(mailnames), <<"alias">>)
         IN  [k \in 1..Len(found) |-> doc[found[k]].text]

\* the nested loops of query_aliases: the alias texts of each mailname in turn
RECURSIVE CollectAliases(_, _)
CollectAliases(doc, mailnames) ==
    IF mailnames = <<>> THEN <<>>
    ELSE LET found == findall(doc, Head(mailnames), <<"alias">>)
         IN  [k \in 1..Len(found) |-> doc[found[k]].text]
             \o CollectAliases(doc, Tail(mailnames))

query_aliases(c, m, account, o) ==
    LET io == request(c, MailGetInfoPacket(m.site_id[1], account), o)
        e  == IF io.exc # NoException THEN io.exc
              ELSE ParseVerified(io.body[1], <<"mail", "get_info", "result">>)
    IN  [exc |-> e,
         val |-> IF e # NoException THEN <<>>
                 ELSE CollectAliases(io.body[1].doc,
                          findall(io.body[1].doc, Root,
                                  <<"mail", "get_info", "result", "mailname">>)),
         conns |-> io.conns, sent |-> io.sent, received |-> io.body]

----------------------------------------------------------------------------
(* The server's responses: the documents lxml.etree.XML hands to the code *)

OkText == <<"o", "k">>
ErrorText == <<"e", "r", "r", "o", "r">>

SiteE == <<"e">>
SiteX == <<"x">>
Sites == {SiteE, SiteX}

Id42 == <<"4", "2">>
Id7 == <<"7">>
Id042 == <<"0", "4", "2">>
IdAbc == <<"a", "b", "c">>

AccountJ == <<"j">>
AliasA == <<"a">>
AliasB == <<"b">>

SeqsUpTo(S, n) == UNION {[1..k -> S] : k \in 0..n}

Leaves(tag, parent, texts) == [k \in 1..Len(texts) |-> Node(tag, parent, texts[k])]

\* <result> of a site/get response, placed at index at under parent:
\* status*, id*, data/gen_info/name*
SiteResultBlock(r, parent, at) ==
    LET data == at + Len(r.status) + Len(r.ids) + 1
    IN  <<Node("result", parent, None)>>
        \o Leaves("status", at, r.status)
        \o Leaves("id", at, r.ids)
        \o <<Node("data", at, None), Node("gen_info", data, None)>>
        \o Leaves("name", data + 1, r.names)

RECURSIVE SiteDocFrom(_, _)
SiteDocFrom(doc, results) ==
    IF results = <<>> THEN doc
    ELSE SiteDocFrom(doc \o SiteResultBlock(Head(results), 3, Len(doc) + 1), Tail(results))

\* <packet><site><get> result* </get></site></packet>
SiteDoc(results) ==
    SiteDocFrom(<<Node("packet", 0, None), Node("site", 1, None), Node("get", 2, None)>>,
                results)

\* <mailname> with its name and its aliases, placed at index at
MailnameBlock(aliases, parent, at) ==
    <<Node("mailname", parent, None), Node("name", at, AccountJ)>>
    \o Leaves("alias", at, aliases)

RECURSIVE MailnamesFrom(_, _, _)
MailnamesFrom(nodes, mailnames, result) ==
    IF mailnames = <<>> THEN nodes
    ELSE MailnamesFrom(
             nodes \o MailnameBlock(Head(mailnames), result, result + Len(nodes)),
             Tail(mailnames), result)

\* <result> of a mail/get_info response: status*, mailname*
InfoResultBlock(r, parent, at) ==
    MailnamesFrom(<<Node("result", parent, None)>> \o Leaves("status", at, r.status),
                  r.mailnames, at)

RECURSIVE InfoDocFrom(_, _)
InfoDocFrom(doc, results) ==
    IF results = <<>> THEN doc
    ELSE InfoDocFrom(doc \o InfoResultBlock(Head(results), 3, Len(doc) + 1), Tail(results))

InfoDoc(results) ==
    InfoDocFrom(<<Node("packet", 0, None), Node("mail", 1, None), Node("get_info", 2, None)>>,
                results)

RECURSIVE UpdateDocFrom(_, _)
UpdateDocFrom(doc, results) ==
    IF results = <<>> THEN doc
    ELSE UpdateDocFrom(
             doc \o <<Node("result", 4, None)>> \o Leaves("status", Len(doc) + 1, Head(results)),
             Tail(results))

\* <packet><mail><update><add|remove> result* ...; a result holds status*
UpdateDoc(verb, results) ==
    UpdateDocFrom(<<Node("packet", 0, None), Node("mail", 1, None),
                    Node("update", 2, None), Node(verb, 3, None)>>, results)

StatusLists == {<<>>, <<OkText>>, <<ErrorText>>, <<OkText, OkText>>}
NameLists == {<<>>, <<SiteE>>, <<SiteX>>, <<SiteE, SiteE>>}
IdLists == {<<>>, <<Id42>>, <<Id7>>, <<Id42, Id7>>, <<IdAbc>>}

SiteShape(status, names, ids) == [status |-> status, names |-> names, ids |-> ids]

\* every combination of status, name and id fields of one result node
SiteShapes == {SiteShape(s, n, i) : s \in StatusLists, n \in NameLists, i \in IdLists}

\* result nodes that are valid for one of the sites, or wrong in one or two fields
SiteShapesMany ==
    {SiteShape(<<OkText>>, <<SiteE>>, <<Id42>>),
     SiteShape(<<OkText>>, <<SiteE>>, <<Id7>>),
     SiteShape(<<OkText>>, <<SiteX>>, <<Id042>>),
     SiteShape(<<>>, <<SiteE>>, <<Id42>>),
     SiteShape(<<ErrorText>>, <<SiteE>>, <<Id42>>),
     SiteShape(<<OkText, OkText>>, <<SiteE>>, <<Id42>>),
     SiteShape(<<OkText>>, <<>>, <<Id42>>),
     SiteShape(<<OkText>>, <<SiteE, SiteE>>, <<Id42>>),
     SiteShape(<<OkText>>, <<SiteE>>, <<>>),
     SiteShape(<<OkText>>, <<SiteE>>, <<Id42, Id7>>),
     SiteShape(<<OkText>>, <<SiteE>>, <<IdAbc>>),
     SiteShape(<<OkText>>, <<SiteE>>, <<None>>),
     SiteShape(<<ErrorText>>, <<SiteX>>, <<Id42>>),
     SiteShape(<<OkText>>, <<SiteX>>, <<>>)}

SiteDocs ==
    {SiteDoc(<<r>>) : r \in SiteShapes}
    \cup {SiteDoc(rs) : rs \in SeqsUpTo(SiteShapesMany, MaxResults)}

MailnameLists ==
    {<<>>, <<<<AliasA>>>>, <<<<AliasB, AliasA>>>>, <<<<AliasA>>, <<>>, <<AliasA, None>>>>}

InfoShapes == {[status |-> s, mailnames |-> m] : s \in StatusLists, m \in MailnameLists}

InfoDocs == {InfoDoc(rs) : rs \in SeqsUpTo(InfoShapes, MaxResults)}

UpdateDocs ==
    {UpdateDoc(v, rs) : v \in {"add", "remove"}, rs \in SeqsUpTo(StatusLists, MaxResults)}

TransportFailure == Outcome(FALSE, FALSE, <<>>)
NotXml == Outcome(TRUE, FALSE, <<>>)

Outcomes(docs) == {TransportFailure, NotXml} \cup {Outcome(TRUE, TRUE, d) : d \in docs}

----------------------------------------------------------------------------
(* State shared by the specifications *)

\* an object not constructed yet is <<>>, a constructed one is <<object>>
Idle ==
    /\ conns = <<>>
    /\ sent = <<>>
    /\ received = <<>>
    /\ ret = <<>>
    /\ ok = "none"
    /\ exc = NoException
    /\ exitcode = -1
    /\ stdout = <<>>
    /\ call = <<>>

NoArgs == [list |-> FALSE, add |-> None, remove |-> None, account |-> <<>>,
           api_user |-> <<>>, api_host |-> <<>>]

\* the effect of one call on the objects the network sees
Io(r) ==
    /\ conns' = conns \o r.conns
    /\ sent' = sent \o r.sent
    /\ received' = received \o r.received

----------------------------------------------------------------------------
(* main(): one run of the command *)

ApiUser == <<"a", "d", "m", "i", "n">>

\* -M values: one '@', none, two, and empty parts
Accounts == {<<"j", "@", "e">>, <<"j", "@", "x">>, <<"j", "e">>,
             <<"j", "@", "e", "@", "x">>, <<"@", "e">>, <<>>}

\* -A / -R values: not given, empty, an alias
Options == {None, <<>>, AliasA}

\* os.getenv: unset, empty, a password
Environ == {None, <<>>, <<"p", "w">>}

ArgSets == {[list |-> l, add |-> a, remove |-> r, account |-> m,
             api_user |-> ApiUser, api_host |-> Host] :
            l \in BOOLEAN, a \in Options, r \in Options, m \in Accounts}

\* the process ends by SystemExit(2) from ArgumentParser.error, by an
\* uncaught exception (status 1) or by returning from main (status 0)
ExitStatus(e) == IF e = NoException THEN 0 ELSE IF e.cls = "SystemExit" THEN 2 ELSE 1

Exit(e) ==
    /\ pc' = "done"
    /\ exc' = e
    /\ exitcode' = ExitStatus(e)

\* lines 231-232
FlagsMissing(a) == ~a.list /\ a.add = None /\ a.remove = None

\* the check of line 240 testing for None only
PasswdMissing_unset(passwd) == passwd = None

\* line 240: not passwd
PasswdMissing(passwd) == ~Truthy(passwd)

\* lines 231-241: the exception that ends main before a client exists.
\* Line 234 rebinds p to the list returned by split, so p.error on line 236
\* is an attribute lookup on a list.
validate(a, passwd) ==
    IF FlagsMissing(a) THEN Raise("SystemExit", MsgFlags, <<>>)
    ELSE IF ~(2 = Len(split(a.account, "@")))
    THEN Raise("AttributeError", MsgListError, <<>>)
    ELSE IF PasswdMissing(passwd) THEN Raise("Exception", MsgEnviron, <<>>)
    ELSE NoException

\* line 237
AccountOf(a) == split(a.account, "@")[1]
SiteOf(a) == split(a.account, "@")[2]

\* the responses offered to one run: every single-result site response and
\* the multi-result ones whose nodes are all valid
SiteShapesValid ==
    {SiteShape(<<OkText>>, <<n>>, <<i>>) : n \in Sites, i \in {Id42, Id7, Id042}}

MainSiteDocs ==
    {SiteDoc(<<r>>) : r \in SiteShapes}
    \cup {SiteDoc(rs) : rs \in SeqsUpTo(SiteShapesValid, MaxResults)}

MainInfoDocs == {InfoDoc(<<r>>) : r \in InfoShapes}

MainUpdateDocs == {UpdateDoc(v, <<s>>) : v \in {"add", "remove"}, s \in StatusLists}

MainInit ==
    /\ pc = "main"
    /\ args \in ArgSets
    /\ env \in Environ
    /\ client = <<>>
    /\ mgr = <<>>
    /\ Idle

\* lines 229-241
MainValidate ==
    /\ pc = "main"
    /\ IF validate(args, env) # NoException
       THEN Exit(validate(args, env))
       ELSE pc' = "connect" /\ UNCHANGED <<exc, exitcode>>
    /\ UNCHANGED <<args, env, client, mgr, conns, sent, received, ret, ok, stdout, call>>

\* lines 243-245
MainConnect ==
    /\ pc = "connect"
    /\ \E o \in Outcomes(MainSiteDocs) :
        LET c == set_credentials(PleskApiClient(args.api_host, FALSE), args.api_user, env)
            r == _get_site_id(c, SiteOf(args), o)
        IN  /\ client' = <<c>>
            /\ Io(r)
            /\ IF r.exc # NoException
               THEN Exit(r.exc) /\ mgr' = mgr
               ELSE /\ mgr' = <<PleskMailAliasManager(SiteOf(args), r.site_id)>>
                    /\ pc' = "list"
                    /\ UNCHANGED <<exc, exitcode>>
    /\ UNCHANGED <<args, env, ret, ok, stdout, call>>

\* print(f"  - {alias}")
AliasLine(alias) ==
    <<" ", " ", "-", " ">> \o (IF alias = None THEN <<"N", "o", "n", "e">> ELSE alias)

Header == <<"a", "l", "i", "a", "s", "e", "s", ":">>

\* lines 247-251
MainList ==
    /\ pc = "list"
    /\ IF args.list
       THEN \E o \in Outcomes(MainInfoDocs) :
            LET r == query_aliases(client[1], mgr[1], AccountOf(args), o)
            IN  /\ Io(r)
                /\ IF r.exc # NoException
                   THEN Exit(r.exc) /\ UNCHANGED <<ret, stdout>>
                   ELSE /\ ret' = r.val
                        /\ stdout' = <<Header>> \o [k \in 1..Len(r.val) |-> AliasLine(r.val[k])]
                        /\ pc' = "add"
                        /\ UNCHANGED <<exc, exitcode>>
       ELSE pc' = "add" /\ UNCHANGED <<conns, sent, received, ret, stdout, exc, exitcode>>
    /\ UNCHANGED <<args, env, client, mgr, ok, call>>

\* lines 252, 254: if args.add / if args.remove
Requested(option) == Truthy(option)

\* lines 252-253
MainAdd ==
    /\ pc = "add"
    /\ IF Requested(args.add)
       THEN \E o \in Outcomes(MainUpdateDocs) :
            LET r == add_mail_alias(client[1], mgr[1], AccountOf(args), args.add, o)
            IN  /\ Io(r)
                /\ IF r.exc # NoException
                   THEN Exit(r.exc)
                   ELSE pc' = "remove" /\ UNCHANGED <<exc, exitcode>>
       ELSE pc' = "remove" /\ UNCHANGED <<conns, sent, received, exc, exitcode>>
    /\ UNCHANGED <<args, env, client, mgr, ret, ok, stdout, call>>

\* lines 254-255 and the return from main
MainRemove ==
    /\ pc = "remove"
    /\ IF Requested(args.remove)
       THEN \E o \in Outcomes(MainUpdateDocs) :
            LET r == del_mail_alias(client[1], mgr[1], AccountOf(args), args.remove, o)
            IN  Io(r) /\ Exit(r.exc)
       ELSE Exit(NoException) /\ UNCHANGED <<conns, sent, received>>
    /\ UNCHANGED <<args, env, client, mgr, ret, ok, stdout, call>>

MainNext == MainValidate \/ MainConnect \/ MainList \/ MainAdd \/ MainRemove

Spec == MainInit /\ [][MainNext]_vars

----------------------------------------------------------------------------
(* The classes used directly: constructing a client and a manager *)

Passwd == <<"p", "w">>

SecretKeys == {<<>>, <<"k">>}

SiteInit ==
    /\ pc = "new"
    /\ args = NoArgs
    /\ env = None
    /\ client = <<>>
    /\ mgr = <<>>
    /\ Idle

\* PleskApiClient(host, ssl_unverified=u)
ApiNewClient ==
    /\ pc = "new"
    /\ \E u \in BOOLEAN : client' = <<PleskApiClient(Host, u)>>
    /\ pc' = "client"
    /\ UNCHANGED <<args, env, mgr, conns, sent, received, ret, ok, exc, exitcode, stdout, call>>

ApiSetCredentials ==
    /\ pc = "client"
    /\ client[1].login = None
    /\ client' = <<set_credentials(client[1], ApiUser, Passwd)>>
    /\ UNCHANGED <<pc, args, env, mgr, conns, sent, received, ret, ok, exc, exitcode, stdout, call>>

ApiSetSecretKey ==
    /\ pc = "client"
    /\ client[1].secret_key = None
    /\ \E k \in SecretKeys : client' = <<set_secret_key(client[1], k)>>
    /\ UNCHANGED <<pc, args, env, mgr, conns, sent, received, ret, ok, exc, exitcode, stdout, call>>

\* PleskMailAliasManager(client, site), for a client that has credentials
ApiNewManager ==
    /\ pc = "client"
    /\ client[1].login # None \/ Truthy(client[1].secret_key)
    /\ \E site \in Sites, o \in Outcomes(SiteDocs) :
        LET r == _get_site_id(client[1], site, o)
        IN  /\ Io(r)
            /\ exc' = r.exc
            /\ call' = <<site>>
            /\ IF r.exc # NoException
               THEN pc' = "raised" /\ mgr' = mgr
               ELSE pc' = "manager" /\ mgr' = <<PleskMailAliasManager(site, r.site_id)>>
    /\ UNCHANGED <<args, env, client, ret, ok, exitcode, stdout>>

SiteNext == ApiNewClient \/ ApiSetCredentials \/ ApiSetSecretKey \/ ApiNewManager

SpecSite == SiteInit /\ [][SiteNext]_vars

----------------------------------------------------------------------------
(* The classes used directly: one call on a constructed manager *)

SiteIds == {42, 7}

MailInit ==
    /\ pc = "manager"
    /\ args = NoArgs
    /\ env = None
    /\ client = <<set_credentials(PleskApiClient(Host, FALSE), ApiUser, Passwd)>>
    /\ mgr \in {<<PleskMailAliasManager(SiteE, <<n>>)>> : n \in SiteIds}
    /\ Idle

Returned(r) ==
    /\ Io(r)
    /\ exc' = r.exc
    /\ ret' = r.val
    /\ pc' = IF r.exc # NoException THEN "raised" ELSE "returned"
    /\ UNCHANGED <<args, env, client, mgr, ok, exitcode, stdout, call>>

ApiQuery ==
    /\ pc = "manager"
    /\ \E o \in Outcomes(InfoDocs \cup UpdateDocs) :
        Returned(query_aliases(client[1], mgr[1], AccountJ, o))

ApiAdd ==
    /\ pc = "manager"
    /\ \E alias \in {AliasA, <<>>}, o \in Outcomes(UpdateDocs) :
        Returned(add_mail_alias(client[1], mgr[1], AccountJ, alias, o))

ApiDel ==
    /\ pc = "manager"
    /\ \E alias \in {AliasA, <<>>}, o \in Outcomes(UpdateDocs) :
        Returned(del_mail_alias(client[1], mgr[1], AccountJ, alias, o))

StatusPaths == {<<"mail", "update", "add", "result">>,
                <<"mail", "update", "remove", "result">>,
                <<"mail", "get_info", "result">>}

\* _verify_status_ok(path, response) on a whole response, or (".", result)
\* on one of its result nodes as _get_site_id calls it
ApiVerifyStatus ==
    /\ pc = "manager"
    /\ \E doc \in InfoDocs \cup UpdateDocs \cup MainSiteDocs :
       \E c \in {<<Root, p>> : p \in StatusPaths}
                \cup {<<el, <<>> >> : el \in {i \in 1..Len(doc) : doc[i].tag = "result"}} :
        LET r == _verify_status_ok(doc, c[1], c[2])
        IN  /\ call' = <<doc, c[1], c[2]>>
            /\ ok' = IF r.exc # NoException THEN "raised"
                     ELSE IF r.val THEN "True" ELSE "False"
            /\ pc' = "verified"
    /\ UNCHANGED <<args, env, client, mgr, conns, sent, received, ret, exc, exitcode, stdout>>

MailNext == ApiQuery \/ ApiAdd \/ ApiDel \/ ApiVerifyStatus

SpecMail == MailInit /\ [][MailNext]_vars

----------------------------------------------------------------------------
(* Vocabulary of the properties: documents read without findall *)

\* the tags from element el (excluded) down to element i (included);
\* holds "#" when el is not an ancestor of i
RECURSIVE PathFrom(_, _, _)
PathFrom(doc, el, i) ==
    IF i = el THEN <<>>
    ELSE IF i = 0 THEN <<"#">>
    ELSE Append(PathFrom(doc, el, doc[i].parent), doc[i].tag)

\* the elements at path below el, as a set
At(doc, el, path) == {i \in 1..Len(doc) : i # el /\ PathFrom(doc, el, i) = path}

\* the elements of a set of indices in document order
RECURSIVE InOrder(_)
InOrder(S) == IF S = {} THEN <<>>
              ELSE LET m == CHOOSE x \in S : \A y \in S : x <= y
                   IN  <<m>> \o InOrder(S \ {m})

StatusPasses(doc, el, path) ==
    /\ Cardinality(At(doc, el, Append(path, "status"))) = 1
    /\ \A i \in At(doc, el, Append(path, "status")) : doc[i].text = OkText

SiteResults(doc) == At(doc, Root, <<"site", "get", "result">>)
NamesOf(doc, r) == At(doc, r, <<"data", "gen_info", "name">>)
IdsOf(doc, r) == At(doc, r, <<"id">>)

IsDecimal(t) == t # None /\ t # <<>> /\ \A k \in 1..Len(t) : IsDigit(t[k])

\* a result node that passes validation for the site
ValidResult(doc, r, site) ==
    /\ StatusPasses(doc, r, <<>>)
    /\ Cardinality(NamesOf(doc, r)) = 1
    /\ \A n \in NamesOf(doc, r) : doc[n].text = site
    /\ Cardinality(IdsOf(doc, r)) = 1
    /\ \A i \in IdsOf(doc, r) : IsDecimal(doc[i].text)

Ops(requests) == [k \in 1..Len(requests) |-> requests[k].body.op]

IsPrefix(s, t) == Len(s) <= Len(t) /\ s = SubSeq(t, 1, Len(s))

CountAt(s) == Cardinality({i \in 1..Len(s) : s[i] = "@"})

Count(requests, op) == Cardinality({k \in 1..Len(requests) : requests[k].body.op = op})

----------------------------------------------------------------------------
(* Properties of main() *)

\* the requests a run is to send: site/get, then one per operation asked for
ExpectedOps(a) ==
    <<"site/get">>
    \o (IF a.list THEN <<"mail/get_info">> ELSE <<>>)
    \o (IF a.add # None THEN <<"mail/update/add">> ELSE <<>>)
    \o (IF a.remove # None THEN <<"mail/update/remove">> ELSE <<>>)

\* C4: the requests sent are a prefix of [site/get, get_info if -L, add if
\* -A, remove if -R]; a run in which no request fails sends all of them and
\* exits 0; a run in which a request fails sends nothing after it and exits
\* non-zero.
C4_RequestSequence ==
    /\ IsPrefix(Ops(sent), ExpectedOps(args))
    /\ (pc = "done" /\ validate(args, env) = NoException) =>
          /\ exc = NoException => Ops(sent) = ExpectedOps(args) /\ exitcode = 0
          /\ exc # NoException => exitcode # 0

\* C5: a run with no operation flag, with a -M value that does not split in
\* two, or with an unset or empty password variable creates no connection,
\* sends no request, and ends with a non-zero exit status straight after
\* argument validation.
C5_NoRequestOnUsageOrConfigError ==
    (FlagsMissing(args) \/ CountAt(args.account) # 1 \/ env = None \/ env = <<>>) =>
        /\ sent = <<>>
        /\ conns = <<>>
        /\ client = <<>>
        /\ pc \in {"main", "done"}
        /\ pc = "done" => exitcode # 0

C5_Witness ==
    /\ pc = "done"
    /\ ~FlagsMissing(args)
    /\ CountAt(args.account) = 1
    /\ env = <<>>
    /\ exitcode = 1
    /\ exc.msg = MsgEnviron
    /\ sent = <<>>

\* C6: a run whose -M value does not hold exactly one '@' ends with a usage
\* error, the SystemExit(2) of ArgumentParser.error; a -M value with exactly
\* one '@' is split into the account before it and the site after it.
C6_AccountUsageError ==
    /\ (pc = "done" /\ CountAt(args.account) # 1) =>
          exc.cls = "SystemExit" /\ exitcode = 2
    /\ (pc # "main" /\ mgr # <<>>) =>
          /\ CountAt(args.account) = 1
          /\ AccountOf(args) \o <<"@">> \o mgr[1].site = args.account

\* C9: when every result node of the site/get response is valid (status ok,
\* name equal to the site, one decimal id) the manager is constructed and
\* its _site_id is the id of the last result node in document order; it
\* keeps that value, and every mail request carries it as site-id.
C9_LastResultWins ==
    (pc \notin {"main", "connect"} /\ received # <<>> /\ received[1].wellformed) =>
        LET doc     == received[1].doc
            results == InOrder(SiteResults(doc))
            last    == results[Len(results)]
        IN  (results # <<>> /\ \A k \in 1..Len(results) :
                                  ValidResult(doc, results[k], SiteOf(args))) =>
                /\ mgr # <<>>
                /\ \A i \in IdsOf(doc, last) :
                      /\ mgr[1].site_id = <<int(doc[i].text)>>
                      /\ \A k \in 2..Len(sent) :
                            sent[k].body.site_id = str(int(doc[i].text))

C9_Witness ==
    /\ pc = "done"
    /\ exitcode = 0
    /\ Len(sent) = 4
    /\ Cardinality(SiteResults(received[1].doc)) = 2
    /\ mgr[1].site_id = <<7>>
    /\ \E r \in SiteResults(received[1].doc) :
          \A i \in IdsOf(received[1].doc, r) : received[1].doc[i].text = Id42
    /\ \A k \in 2..4 : sent[k].body.site_id = Id7

\* C10: a run that exits 0 has sent exactly one mail/update/add request if -A
\* was given and exactly one mail/update/remove request if -R was given,
\* whatever alias text validation accepted, the empty string included.
C10_ExitZeroMeansPerformed ==
    (pc = "done" /\ exitcode = 0) =>
        /\ args.add # None => Count(sent, "mail/update/add") = 1
        /\ args.remove # None => Count(sent, "mail/update/remove") = 1
        /\ Len(sent) >= 2

----------------------------------------------------------------------------
(* Properties of the client and of site resolution *)

\* C1 as stated: a client asked to skip certificate verification is never
\* obtained, and no connection object is created for it.
C1_FailsAtConstruction ==
    /\ client # <<>> => client[1].ssl_unverified = FALSE
    /\ \A k \in 1..Len(conns) : conns[k].verified

\* C1 as it holds: PleskApiClient(host, ssl_unverified=True) is constructed;
\* every request made through it creates a connection object with an
\* unverified context and then raises the certificate Exception before
\* anything is handed to the connection, so no request is sent, no response
\* is read and no manager is obtained.
C1_InsecureClientNeverSends ==
    (client # <<>> /\ client[1].ssl_unverified) =>
        /\ sent = <<>>
        /\ received = <<>>
        /\ mgr = <<>>
        /\ pc \in {"client", "raised"}
        /\ pc = "raised" =>
              /\ exc = Raise("Exception", MsgCertificate, <<>>)
              /\ conns = <<HTTPSConnection(client[1], FALSE)>>

C1_Witness ==
    /\ pc = "raised"
    /\ client[1].ssl_unverified
    /\ exc.msg = MsgCertificate
    /\ Len(conns) = 1
    /\ sent = <<>>

\* the site/get response read by the manager's constructor, if one was read
Resolved == pc \in {"raised", "manager"} /\ received # <<>> /\ received[1].wellformed

\* C2: when the site/get response holds a result node with a gen_info name
\* other than the requested site, at whatever position, the constructor
\* raises and no manager, hence no site identifier, exists.
C2_NameMismatchFails ==
    Resolved =>
        LET doc == received[1].doc
        IN  (\E r \in SiteResults(doc) : \E n \in NamesOf(doc, r) : doc[n].text # call[1]) =>
                /\ pc = "raised"
                /\ exc # NoException
                /\ mgr = <<>>
                /\ Len(sent) = 1

C2_Witness ==
    /\ Resolved
    /\ pc = "raised"
    /\ LET doc     == received[1].doc
           results == InOrder(SiteResults(doc))
       IN  /\ Len(results) = 2
           /\ ValidResult(doc, results[1], call[1])
           /\ \E n \in NamesOf(doc, results[2]) : doc[n].text # call[1]
           /\ StatusPasses(doc, results[2], <<>>)

\* why resolution fails on a well-formed response: the first result node in
\* document order that is not valid decides, by its first failing check
FirstFault(doc, site) ==
    LET results == InOrder(SiteResults(doc))
        bad     == {k \in 1..Len(results) : ~ValidResult(doc, results[k], site)}
        r       == results[CHOOSE k \in bad : \A j \in bad : k <= j]
    IN  IF results = <<>> THEN "no result"
        ELSE IF bad = {} THEN "none"
        ELSE IF ~StatusPasses(doc, r, <<>>) THEN "status"
        ELSE IF Cardinality(NamesOf(doc, r)) # 1 THEN "name count"
        ELSE IF \E n \in NamesOf(doc, r) : doc[n].text # site THEN "name mismatch"
        ELSE IF Cardinality(IdsOf(doc, r)) # 1 THEN "id count"
        ELSE "id text"

ListedFaults == {"no result", "status", "name count", "name mismatch", "id count"}

\* C7 as stated: every failure of site resolution is the one error that
\* carries the raw response body.
C7_OneErrorKind ==
    (Resolved /\ FirstFault(received[1].doc, call[1]) \in ListedFaults) =>
        exc = Raise("Exception", MsgNotOkay, <<received[1]>>)

\* C7 as it holds: zero result nodes and a failed status check raise "XML
\* RPC response was not okay" carrying the response body; a name mismatch
\* raises "does not match specified site name" and a missing or duplicated
\* name or id raises the _xml_find_one error, both without the body.
C7_ErrorByFault ==
    Resolved =>
        LET fault == FirstFault(received[1].doc, call[1])
        IN  /\ fault \in {"no result", "status"} =>
                  exc = Raise("Exception", MsgNotOkay, <<received[1]>>)
            /\ fault = "name mismatch" => exc = Raise("Exception", MsgSiteName, <<>>)
            /\ fault \in {"name count", "id count"} =>
                  exc = Raise("Exception", MsgFindOne, <<>>)
            /\ fault = "id text" => exc.cls \in {"ValueError", "TypeError"} /\ exc.body = <<>>
            /\ fault = "none" <=> exc = NoException

C7_Witness ==
    /\ Resolved
    /\ FirstFault(received[1].doc, call[1]) = "name mismatch"
    /\ exc.msg = MsgSiteName
    /\ exc.body = <<>>

----------------------------------------------------------------------------
(* Properties of the calls on a manager *)

\* C3: _verify_status_ok returns True exactly when there is one status
\* element at path + "/status" and its text is "ok"; otherwise it returns
\* False; it never raises.
C3_StatusCheck ==
    pc = "verified" =>
        /\ ok \in {"True", "False"}
        /\ ok = "True" <=> StatusPasses(call[1], call[2], call[3])

C3_Witness ==
    /\ pc = "verified"
    /\ ok = "False"
    /\ LET status == At(call[1], call[2], Append(call[3], "status"))
       IN  Cardinality(status) = 2 /\ \A i \in status : call[1][i].text = OkText

InfoPath == <<"mail", "get_info", "result">>

Queried ==
    /\ pc \in {"returned", "raised"}
    /\ sent # <<>>
    /\ sent[1].body.op = "mail/get_info"
    /\ received # <<>>
    /\ received[1].wellformed

\* C8: when the status check at mail/get_info/result passes, query_aliases
\* returns the texts of all mailname/alias elements below it in document
\* order, duplicates kept, the empty sequence when there are none; when the
\* check does not pass it raises and returns nothing.
C8_AliasesInDocumentOrder ==
    Queried =>
        LET doc     == received[1].doc
            aliases == InOrder(At(doc, Root, InfoPath \o <<"mailname", "alias">>))
        IN  IF StatusPasses(doc, Root, InfoPath)
            THEN /\ pc = "returned"
                 /\ exc = NoException
                 /\ ret = [k \in 1..Len(aliases) |-> doc[aliases[k]].text]
            ELSE /\ pc = "raised"
                 /\ exc = Raise("Exception", MsgNotOkay, <<received[1]>>)
                 /\ ret = <<>>

C8_Witness ==
    /\ Queried
    /\ pc = "returned"
    /\ ret = <<AliasA, AliasA, None>>
    /\ Cardinality(At(received[1].doc, Root, InfoPath)) = 2

====
